---------------------------- MODULE Spec2Model ----------------------------
(***************************************************************************)
(* A model of deeppavlov/models/evolution/evolution_param_generator.py:    *)
(* the class ParamsEvolution (construction, first_generation,              *)
(* next_generation, selection, crossover, mutation, sampling).             *)
(*                                                                         *)
(* Python values are tagged records: a dict is [d |-> <<<<key, value>>,    *)
(* ...>>] in insertion order, a list [l |-> <<...>>], a str [s |-> <<one   *)
(* character strings>>], a number [n |-> Num], a bool [b |-> ...].  Dict   *)
(* keys are strings; a path element is a dict key (a string, [k |-> ..])   *)
(* or a list index ([i |-> ..], counted from 0 as in Python).              *)
(*                                                                         *)
(* Python floats are IEEE binary64: a Num is the exact dyadic rational     *)
(* sg * m * 2^e with m a natural number, and every float operation is the    *)
(* exact operation followed by RoundF, rounding to 53 significant bits,    *)
(* ties to even.                                                           *)
(***************************************************************************)
EXTENDS Integers, Sequences, FiniteSets, TLC

(***************************************************************************)
(* Natural numbers as sequences of limbs in base 2^LimbBits, the most      *)
(* significant limb first, so that every intermediate value stays inside   *)
(* 32-bit integers.                                                        *)
(***************************************************************************)
LimbBits == 13

Base == 2 ^ LimbBits

RECURSIVE StripLead(_)
StripLead(ls) ==
    IF ls = <<>> THEN <<>>
    ELSE IF ls[1] = 0 THEN StripLead(Tail(ls)) ELSE ls

Zeros(k) == [j \in 1..k |-> 0]

PadTo(ls, k) == Zeros(k - Len(ls)) \o ls

MaxOf(a, b) == IF a >= b THEN a ELSE b

MinOf(a, b) == IF a <= b THEN a ELSE b

RECURSIVE NatLimbs(_)
NatLimbs(v) == IF v = 0 THEN <<>> ELSE Append(NatLimbs(v \div Base), v % Base)

RECURSIVE NatVal(_)
NatVal(ls) ==
    IF ls = <<>> THEN 0
    ELSE Base * NatVal(SubSeq(ls, 1, Len(ls) - 1)) + ls[Len(ls)]

\* the number of bits of a limb v
RECURSIVE BitLen(_)
BitLen(v) == IF v = 0 THEN 0 ELSE 1 + BitLen(v \div 2)

\* the number of trailing zero bits of a limb v > 0
RECURSIVE TrailZeros(_)
TrailZeros(v) == IF v % 2 = 1 THEN 0 ELSE 1 + TrailZeros(v \div 2)

NatBitLen(ls) ==
    LET a == StripLead(ls)
    IN  IF a = <<>> THEN 0 ELSE (Len(a) - 1) * LimbBits + BitLen(a[1])

\* -1, 0, 1 as a < b, a = b, a > b (both without leading zeros)
RECURSIVE LexCmp(_, _, _)
LexCmp(a, b, j) ==
    IF j > Len(a) THEN 0
    ELSE IF a[j] < b[j] THEN -1
    ELSE IF a[j] > b[j] THEN 1
    ELSE LexCmp(a, b, j + 1)

NatCmp(p, q) ==
    LET a == StripLead(p)
        b == StripLead(q)
    IN  IF Len(a) < Len(b) THEN -1
        ELSE IF Len(a) > Len(b) THEN 1
        ELSE LexCmp(a, b, 1)

RECURSIVE AddLoop(_, _, _, _, _)
AddLoop(a, b, j, carry, acc) ==
    IF j = 0 THEN (IF carry = 1 THEN <<1>> \o acc ELSE acc)
    ELSE LET t == a[j] + b[j] + carry
         IN  AddLoop(a, b, j - 1, t \div Base, <<t % Base>> \o acc)

NatAdd(a, b) ==
    LET k == MaxOf(Len(a), Len(b))
    IN  StripLead(AddLoop(PadTo(a, k), PadTo(b, k), k, 0, <<>>))

RECURSIVE SubLoop(_, _, _, _, _)
SubLoop(a, b, j, borrow, acc) ==
    IF j = 0 THEN acc
    ELSE LET t == a[j] - b[j] - borrow
         IN  IF t < 0 THEN SubLoop(a, b, j - 1, 1, <<t + Base>> \o acc)
             ELSE SubLoop(a, b, j - 1, 0, <<t>> \o acc)

\* a - b for a >= b
NatSub(a, b) ==
    LET k == MaxOf(Len(a), Len(b))
    IN  StripLead(SubLoop(PadTo(a, k), PadTo(b, k), k, 0, <<>>))

\* a * c for a limb c
RECURSIVE ScalarLoop(_, _, _, _, _)
ScalarLoop(a, c, j, carry, acc) ==
    IF j = 0 THEN StripLead(<<carry>> \o acc)
    ELSE LET t == a[j] * c + carry
         IN  ScalarLoop(a, c, j - 1, t \div Base, <<t % Base>> \o acc)

NatScale(a, c) == ScalarLoop(a, c, Len(a), 0, <<>>)

RECURSIVE MulLoop(_, _, _, _)
MulLoop(a, b, j, acc) ==
    IF j > Len(b) THEN acc
    ELSE MulLoop(a, b, j + 1,
                 NatAdd(IF acc = <<>> THEN <<>> ELSE Append(acc, 0), NatScale(a, b[j])))

NatMul(a, b) == MulLoop(StripLead(a), StripLead(b), 1, <<>>)

\* <<quotient limbs, remainder>> of the division of a by a limb c > 0
RECURSIVE DivLoop(_, _, _, _, _)
DivLoop(a, c, j, rem, acc) ==
    IF j > Len(a) THEN <<StripLead(acc), rem>>
    ELSE LET r == rem * Base + a[j]
         IN  DivLoop(a, c, j + 1, r % c, Append(acc, r \div c))

NatDivLimb(a, c) == DivLoop(a, c, 1, 0, <<>>)

\* a * 2^k
NatShiftL(a, k) ==
    IF StripLead(a) = <<>> THEN <<>>
    ELSE NatScale(StripLead(a), 2 ^ (k % LimbBits)) \o Zeros(k \div LimbBits)

\* floor(a / 2^k)
NatShiftR(a, k) ==
    LET drop == k \div LimbBits
    IN  IF drop >= Len(a) THEN <<>>
        ELSE NatDivLimb(SubSeq(a, 1, Len(a) - drop), 2 ^ (k % LimbBits))[1]

\* the number of trailing zero bits of a # 0
RECURSIVE NatTrailZeros(_)
NatTrailZeros(a) ==
    IF a[Len(a)] = 0 THEN LimbBits + NatTrailZeros(SubSeq(a, 1, Len(a) - 1))
    ELSE TrailZeros(a[Len(a)])

(***************************************************************************)
(* Num: sg * m * 2^e, canonical: m is odd and has no leading zero limb,    *)
(* and zero is [sg |-> 0, m |-> <<>>, e |-> 0].                            *)
(***************************************************************************)
NumZero == [sg |-> 0, m |-> <<>>, e |-> 0]

\* sg * a * 2^e for a # <<>> with tz trailing zero bits
CanonOdd(sg, a, tz, e) == [sg |-> sg, m |-> NatShiftR(a, tz), e |-> e + tz]

\* sg * a * 2^e for a without leading zero limbs
CanonStripped(sg, a, e) ==
    IF a = <<>> \/ sg = 0 THEN NumZero ELSE CanonOdd(sg, a, NatTrailZeros(a), e)

Canon(sg, ls, e) == CanonStripped(sg, StripLead(ls), e)

FromInt(v) ==
    IF v = 0 THEN NumZero
    ELSE Canon(IF v < 0 THEN -1 ELSE 1, NatLimbs(IF v < 0 THEN -v ELSE v), 0)

\* 2^e
TwoPow(e) == [sg |-> 1, m |-> <<1>>, e |-> e]

NumNeg(a) == [a EXCEPT !.sg = -a.sg]

\* sa * ma * 2^e + sb * mb * 2^e for sa # sb, c the comparison of ma with mb
NumDiff(sa, sb, ma, mb, c, e) ==
    IF c = 0 THEN NumZero
    ELSE Canon(IF c > 0 THEN sa ELSE sb,
               IF c > 0 THEN NatSub(ma, mb) ELSE NatSub(mb, ma), e)

\* sa * ma * 2^e + sb * mb * 2^e
NumAligned(sa, sb, ma, mb, e) ==
    IF sa = sb THEN Canon(sa, NatAdd(ma, mb), e)
    ELSE NumDiff(sa, sb, ma, mb, NatCmp(ma, mb), e)

NumAddAt(a, b, e) ==
    NumAligned(a.sg, b.sg, NatShiftL(a.m, a.e - e), NatShiftL(b.m, b.e - e), e)

NumAdd(a, b) ==
    IF a.sg = 0 THEN b
    ELSE IF b.sg = 0 THEN a
    ELSE NumAddAt(a, b, MinOf(a.e, b.e))

NumSub(a, b) == NumAdd(a, NumNeg(b))

NumMul(a, b) ==
    IF a.sg = 0 \/ b.sg = 0 THEN NumZero
    ELSE Canon(a.sg * b.sg, NatMul(a.m, b.m), a.e + b.e)

NumLess(a, b) == NumSub(a, b).sg = -1

NumLeq(a, b) == NumSub(a, b).sg <= 0

NumIsInt(a) == a.e >= 0

\* the integer a Num with e >= 0 stands for
NumToInt(a) == a.sg * NatVal(NatShiftL(a.m, a.e))

\* the significand width of binary64
Prec == 53

\* a with its significand m cut to top = floor(m / 2^s), rounded up when the
\* remainder rest is above the half, or at the half with top odd
RoundCut(a, s, top, rest) ==
    Canon(a.sg,
          IF \E c \in {NatCmp(rest, NatShiftL(<<1>>, s - 1))} :
                c > 0 \/ (c = 0 /\ top[Len(top)] % 2 = 1)
          THEN NatAdd(top, <<1>>) ELSE top,
          a.e + s)

RoundTop(a, s, top) == RoundCut(a, s, top, NatSub(a.m, NatShiftL(top, s)))

RoundBits(a, n) ==
    IF n <= Prec THEN a ELSE RoundTop(a, n - Prec, NatShiftR(a.m, n - Prec))

\* round to nearest, ties to even, at Prec significant bits
RoundF(a) == RoundBits(a, NatBitLen(a.m))

FAdd(a, b) == RoundF(NumAdd(a, b))

FSub(a, b) == RoundF(NumSub(a, b))

FMul(a, b) == RoundF(NumMul(a, b))

\* sg * (2 * quotient + sticky bit) * 2^-(6 * LimbBits + 1), rounded, for
\* res = <<quotient, remainder>> of the division with 6 more limbs
FDivRound(sg, res) ==
    RoundF(Canon(sg, NatAdd(NatScale(res[1], 2), <<IF res[2] = 0 THEN 0 ELSE 1>>),
                 -(6 * LimbBits + 1)))

\* the float p / q of two integers, q # 0, |q| < Base: the quotient to more
\* than Prec + 2 bits with a sticky last bit, rounded
FDivInt(p, q) ==
    IF p = 0 THEN NumZero
    ELSE FDivRound(IF (p < 0) = (q < 0) THEN 1 ELSE -1,
                   NatDivLimb(NatLimbs(IF p < 0 THEN -p ELSE p) \o Zeros(6),
                              IF q < 0 THEN -q ELSE q))

\* int(a): truncation toward zero
NumTrunc(a) ==
    IF a.e >= 0 THEN NumToInt(a)
    ELSE a.sg * NatVal(NatShiftR(a.m, -a.e))

\* t + 1 or t for a positive a of truncation t and fractional part frac
RoundUp(t, frac) ==
    IF NumLess(TwoPow(-1), frac) \/ (frac = TwoPow(-1) /\ t % 2 = 1) THEN t + 1 ELSE t

RoundAbs(a, t) == RoundUp(t, NumSub(a, FromInt(t)))

\* round(a), np.round(a): to the nearest integer, ties to even
NumRound(a) ==
    IF a.e >= 0 THEN NumToInt(a)
    ELSE a.sg * RoundAbs([a EXCEPT !.sg = 1], NumTrunc([a EXCEPT !.sg = 1]))

(***************************************************************************)
(* IEEE special values: numpy divides by zero without raising (a warning   *)
(* only), giving inf, -inf or nan.                                         *)
(***************************************************************************)
NaN == [nan |-> TRUE]

Inf(sg) == [inf |-> sg]

IsNaN(a) == "nan" \in DOMAIN a

IsInf(a) == "inf" \in DOMAIN a

IsFinite(a) == "sg" \in DOMAIN a

\* a / b for integer-valued finite floats given as integers
XDivInt(p, q) ==
    IF q # 0 THEN FDivInt(p, q)
    ELSE IF p = 0 THEN NaN
    ELSE IF p > 0 THEN Inf(1) ELSE Inf(-1)

XAdd(a, b) ==
    IF IsNaN(a) \/ IsNaN(b) THEN NaN
    ELSE IF IsInf(a) /\ IsInf(b) THEN (IF a.inf = b.inf THEN a ELSE NaN)
    ELSE IF IsInf(a) THEN a
    ELSE IF IsInf(b) THEN b
    ELSE FAdd(a, b)

\* a < b; every comparison with nan is false
XLess(a, b) ==
    IF IsNaN(a) \/ IsNaN(b) THEN FALSE
    ELSE IF IsInf(a) THEN a.inf = -1 /\ ~(IsInf(b) /\ b.inf = -1)
    ELSE IF IsInf(b) THEN b.inf = 1
    ELSE NumLess(a, b)

(***************************************************************************)
(* Python values.                                                          *)
(***************************************************************************)
Key(name) == [k |-> name]

Idx(j) == [i |-> j]

Dict(items) == [d |-> items]

List(items) == [l |-> items]

Str(chars) == [s |-> chars]

NumV(a) == [n |-> a]

IntV(v) == [n |-> FromInt(v)]

Bool(v) == [b |-> v]

Err(name) == [err |-> name]

None == [none |-> TRUE]

IsDict(v) == "d" \in DOMAIN v

IsList(v) == "l" \in DOMAIN v

IsStr(v) == "s" \in DOMAIN v

IsNum(v) == "n" \in DOMAIN v

IsBool(v) == "b" \in DOMAIN v

IsErr(v) == "err" \in DOMAIN v

IsKey(el) == "k" \in DOMAIN el

IsIdx(el) == "i" \in DOMAIN el

\* bool(v) of a Python value
Truthy(v) ==
    IF v = None THEN FALSE
    ELSE IF IsBool(v) THEN v.b
    ELSE IF IsNum(v) THEN v.n # NumZero
    ELSE IF IsStr(v) THEN v.s # <<>>
    ELSE IF IsList(v) THEN v.l # <<>>
    ELSE v.d # <<>>

\* the position of key el in the dict v, 0 when absent
KeyIndex(v, el) ==
    IF \E j \in 1..Len(v.d) : v.d[j][1] = el
    THEN CHOOSE j \in 1..Len(v.d) : v.d[j][1] = el
    ELSE 0

HasKey(v, el) == KeyIndex(v, el) # 0

DictGet(v, el) == v.d[KeyIndex(v, el)][2]

\* the value at position j of the dict v, absent when j = 0
DictItem(v, j, absent) == IF j = 0 THEN absent ELSE v.d[j][2]

\* v.get(el, absent)
DictGetOr(v, el, absent) == DictItem(v, KeyIndex(v, el), absent)

DictPutAt(v, el, val, j) ==
    IF j = 0 THEN [d |-> Append(v.d, <<el, val>>)]
    ELSE [d |-> [v.d EXCEPT ![j] = <<el, val>>]]

\* v[el] = val on a dict: a present key keeps its place, a new one goes last
DictPut(v, el, val) == DictPutAt(v, el, val, KeyIndex(v, el))

\* bool(value.get(name))
GetTruthy(value, name) == Truthy(DictGetOr(value, Key(name), None))

\* the position (from 1) the Python index i selects among n items, 0 when out
\* of range
PosOf(i, n) ==
    IF i >= 0 /\ i < n THEN i + 1
    ELSE IF i < 0 /\ i >= -n THEN n + i + 1
    ELSE 0

ListPos(v, el) == PosOf(el.i, Len(v.l))

ListItem(v, pos) == IF pos = 0 THEN Err("IndexError") ELSE v.l[pos]

\* v[el] on a list
ListGet(v, el) ==
    IF ~IsIdx(el) THEN Err("TypeError") ELSE ListItem(v, ListPos(v, el))

ListSetAt(v, pos, val) ==
    IF pos = 0 THEN Err("IndexError") ELSE [l |-> [v.l EXCEPT ![pos] = val]]

\* v[el] = val on a list
ListSet(v, el, val) ==
    IF ~IsIdx(el) THEN Err("TypeError") ELSE ListSetAt(v, ListPos(v, el), val)

StrItem(v, pos) == IF pos = 0 THEN Err("IndexError") ELSE [s |-> <<v.s[pos]>>]

\* v[el] on a str
StrGet(v, el) ==
    IF ~IsIdx(el) THEN Err("TypeError") ELSE StrItem(v, PosOf(el.i, Len(v.s)))

\* iterating a str as a path: each character is used as a dict key
StrAsPath(v) == [j \in 1..Len(v.s) |-> Key(v.s[j])]

(***************************************************************************)
(* _find_model_path: the paths, in traversal order, of the sub-trees that  *)
(* are dicts holding key_model; descent stops at a match.                  *)
(***************************************************************************)
RECURSIVE find_model_path(_, _, _)
RECURSIVE FindInItems(_, _, _, _)
FindInItems(config, key_model, path, j) ==
    IF IsDict(config) THEN
        IF j > Len(config.d) THEN <<>>
        ELSE find_model_path(config.d[j][2], key_model, Append(path, config.d[j][1]))
             \o FindInItems(config, key_model, path, j + 1)
    ELSE
        IF j > Len(config.l) THEN <<>>
        ELSE find_model_path(config.l[j], key_model, Append(path, Idx(j - 1)))
             \o FindInItems(config, key_model, path, j + 1)

find_model_path(config, key_model, path) ==
    IF IsDict(config) /\ HasKey(config, key_model) THEN <<path>>
    ELSE IF IsDict(config) \/ IsList(config) THEN FindInItems(config, key_model, path, 1)
    ELSE <<>>

(***************************************************************************)
(* _insert_value_or_dict_into_config on a deep copy of config: the walk    *)
(* over path[:-1] (setdefault on a dict, indexing on a list, nothing on    *)
(* anything else), then the assignment at path[-1].  The result is the     *)
(* new tree, or Err(exception).                                            *)
(***************************************************************************)
\* config_pointer[el] = value
AssignAt(node, el, value) ==
    IF IsDict(node) THEN DictPut(node, el, value)
    ELSE IF IsList(node) THEN ListSet(node, el, value)
    ELSE Err("TypeError")

\* the step of the walk from a dict or a list: config_pointer.setdefault(el, {})
\* or config_pointer[el]
StepInto(node, el) ==
    IF IsDict(node) THEN DictGetOr(node, el, [d |-> <<>>]) ELSE ListGet(node, el)

\* node with the rewritten sub-tree new put back at el
PutBack(node, el, new) == IF IsErr(new) THEN new ELSE AssignAt(node, el, new)

RECURSIVE InsertWalk(_, _, _)
RECURSIVE InsertInto(_, _, _, _, _)
InsertInto(node, el, sub, rest, value) ==
    IF IsErr(sub) THEN sub ELSE PutBack(node, el, InsertWalk(sub, rest, value))

InsertWalk(node, path, value) ==
    IF Len(path) = 1 THEN AssignAt(node, path[1], value)
    ELSE IF IsDict(node) \/ IsList(node)
    THEN InsertInto(node, path[1], StepInto(node, path[1]), Tail(path), value)
    ELSE InsertWalk(node, Tail(path), value)

insert_value_or_dict_into_config(config, path, value) ==
    IF path = <<>> THEN Err("IndexError")
    ELSE InsertWalk(config, path, value)

(***************************************************************************)
(* _get_value_from_config: the same walk on a deep copy, then the read of  *)
(* path[-1].                                                               *)
(***************************************************************************)
\* config_pointer[el]
ReadAt(node, el) ==
    IF IsDict(node) THEN DictGetOr(node, el, Err("KeyError"))
    ELSE IF IsList(node) THEN ListGet(node, el)
    ELSE IF IsStr(node) THEN StrGet(node, el)
    ELSE Err("TypeError")

RECURSIVE GetWalk(_, _)
RECURSIVE GetFrom(_, _)
GetFrom(sub, rest) == IF IsErr(sub) THEN sub ELSE GetWalk(sub, rest)

GetWalk(node, path) ==
    IF Len(path) = 1 THEN ReadAt(node, path[1])
    ELSE IF IsDict(node) \/ IsList(node) THEN GetFrom(StepInto(node, path[1]), Tail(path))
    ELSE GetWalk(node, Tail(path))

get_value_from_config(config, path) ==
    IF path = <<>> THEN Err("IndexError")
    ELSE GetWalk(config, path)

(***************************************************************************)
(* Objects.  The values above are trees; dicts and lists are objects with  *)
(* an identity, and the code copies them (deepcopy), mutates them in place *)
(* (setdefault, item assignment) and stores them by reference.  An object  *)
(* heap is a sequence of cells, a cell being a dict [d |-> ...] or a list  *)
(* [l |-> ...] whose items are slots: a reference [ref |-> position in the *)
(* heap] or an immutable value (str, number, bool, None) held as it is.    *)
(***************************************************************************)
IsRef(slot) == "ref" \in DOMAIN slot

\* the slots of a cell
SlotsOf(cell) ==
    IF IsDict(cell) THEN {cell.d[j][2] : j \in 1..Len(cell.d)}
    ELSE {cell.l[j] : j \in 1..Len(cell.l)}

\* the objects the objects in ids refer to
RefsFrom(heap, ids) ==
    UNION {{slot.ref : slot \in {s \in SlotsOf(heap[id]) : IsRef(s)}} : id \in ids}

\* the objects reachable from the objects in ids
RECURSIVE Reach(_, _)
Reach(heap, ids) ==
    IF RefsFrom(heap, ids) \subseteq ids THEN ids
    ELSE Reach(heap, ids \cup RefsFrom(heap, ids))

\* the objects reachable from the slots of a sequence
ReachOf(heap, slots) ==
    Reach(heap, {slots[j].ref : j \in {q \in 1..Len(slots) : IsRef(slots[q])}})

\* a slot, and a cell, with every reference renamed by to
Renamed(slot, to) == IF IsRef(slot) THEN [ref |-> to[slot.ref]] ELSE slot

CellRenamed(cell, to) ==
    IF IsDict(cell)
    THEN [d |-> [j \in 1..Len(cell.d) |-> <<cell.d[j][1], Renamed(cell.d[j][2], to)>>]]
    ELSE [l |-> [j \in 1..Len(cell.l) |-> Renamed(cell.l[j], to)]]

\* the place of id among ids in ascending order, and the id at place q
RankIn(ids, id) == Cardinality({x \in ids : x <= id})

NthOf(ids, q) == CHOOSE id \in ids : RankIn(ids, id) = q

\* the cells of the objects in ids, in order, renamed by to
CellsOf(heap, ids, to) ==
    [q \in 1..Cardinality(ids) |-> CellRenamed(heap[NthOf(ids, q)], to)]

\* copy.deepcopy of the objects in ids: each gets one new object after the
\* base objects there are, references among them (shared ones too) follow
CopiesOf(heap, ids, base) ==
    CellsOf(heap, ids, [x \in ids |-> base + RankIn(ids, x)])

CopyOf(heap, slot, ids) ==
    [heap |-> heap \o CopiesOf(heap, ids, Len(heap)),
     slot |-> [ref |-> Len(heap) + RankIn(ids, slot.ref)]]

\* no copy: the object itself
NoCopy(heap, slot) == [heap |-> heap, slot |-> slot]

\* copy.deepcopy(slot): the heap afterwards and the copy; an immutable value
\* is its own copy
deepcopy(heap, slot) ==
    IF IsRef(slot) THEN CopyOf(heap, slot, Reach(heap, {slot.ref}))
    ELSE [heap |-> heap, slot |-> slot]

\* the tree a slot stands for
RECURSIVE Deref(_, _)
DerefCell(heap, cell) ==
    IF IsDict(cell)
    THEN [d |-> [j \in 1..Len(cell.d) |-> <<cell.d[j][1], Deref(heap, cell.d[j][2])>>]]
    ELSE [l |-> [j \in 1..Len(cell.l) |-> Deref(heap, cell.l[j])]]

Deref(heap, slot) == IF IsRef(slot) THEN DerefCell(heap, heap[slot.ref]) ELSE slot

\* the objects a tree is made of when it is built: the heap afterwards and
\* the slot of the tree
RECURSIVE Store(_, _)
RECURSIVE StoreItems(_, _, _, _)
StoreItem(stored, id, tree, j) ==
    StoreItems([stored.heap EXCEPT ![id] =
                   IF IsDict(tree) THEN [d |-> Append(@.d, <<tree.d[j][1], stored.slot>>)]
                   ELSE [l |-> Append(@.l, stored.slot)]],
               id, tree, j + 1)

StoreItems(heap, id, tree, j) ==
    IF j > (IF IsDict(tree) THEN Len(tree.d) ELSE Len(tree.l))
    THEN [heap |-> heap, slot |-> [ref |-> id]]
    ELSE StoreItem(Store(heap, IF IsDict(tree) THEN tree.d[j][2] ELSE tree.l[j]),
                   id, tree, j)

Store(heap, tree) ==
    IF IsDict(tree) THEN StoreItems(Append(heap, [d |-> <<>>]), Len(heap) + 1, tree, 1)
    ELSE IF IsList(tree) THEN StoreItems(Append(heap, [l |-> <<>>]), Len(heap) + 1, tree, 1)
    ELSE [heap |-> heap, slot |-> tree]

\* the heap without the objects that roots do not reach, the others keeping
\* their order, and the roots in it
Live(heap, roots) ==
    [heap  |-> CellsOf(heap, ReachOf(heap, roots),
                       [x \in ReachOf(heap, roots) |-> RankIn(ReachOf(heap, roots), x)]),
     roots |-> [j \in 1..Len(roots) |->
                   Renamed(roots[j], [x \in ReachOf(heap, roots) |->
                                         RankIn(ReachOf(heap, roots), x)])]]

\* What a slot holds: the cell of an object, or the immutable value.
Held(heap, slot) == IF IsRef(slot) THEN heap[slot.ref] ELSE slot

\* an exception raised when the heap is as given
Raising(error, heap) == [err |-> error.err, heap |-> heap]

\* The loop of both walks over path[:-1], on objects: a dict is entered with
\* setdefault(el, {}), which adds a new empty dict to it when the key is
\* missing, a list is indexed, anything else is passed over.  The heap
\* afterwards and the pointer, or the exception.
RECURSIVE HeapWalk(_, _, _)
WalkInto(heap, sub, path) ==
    IF IsErr(sub) THEN Raising(sub, heap) ELSE HeapWalk(heap, sub, Tail(path))

WalkDict(heap, pointer, path, j) ==
    IF j = 0
    THEN HeapWalk(Append([heap EXCEPT ![pointer.ref] =
                             [d |-> Append(@.d, <<path[1], [ref |-> Len(heap) + 1]>>)]],
                         [d |-> <<>>]),
                  [ref |-> Len(heap) + 1], Tail(path))
    ELSE HeapWalk(heap, heap[pointer.ref].d[j][2], Tail(path))

HeapWalk(heap, pointer, path) ==
    IF Len(path) = 1 THEN [heap |-> heap, pointer |-> pointer]
    ELSE IF ~IsRef(pointer) THEN HeapWalk(heap, pointer, Tail(path))
    ELSE IF IsDict(heap[pointer.ref])
         THEN WalkDict(heap, pointer, path, KeyIndex(heap[pointer.ref], path[1]))
         ELSE WalkInto(heap, ListGet(heap[pointer.ref], path[1]), path)

\* config_pointer[path[-1]] = value: the object the pointer refers to gets
\* the value itself, not a copy of it
Assigned(heap, pointer, cell) ==
    IF IsErr(cell) THEN Raising(cell, heap)
    ELSE [heap |-> [heap EXCEPT ![pointer.ref] = cell]]

HeapAssign(heap, pointer, el, value) ==
    Assigned(heap, pointer, AssignAt(Held(heap, pointer), el, value))

Returning(assigned, slot) ==
    IF IsErr(assigned) THEN assigned ELSE [heap |-> assigned.heap, slot |-> slot]

InsertWalked(walked, copy, el, value) ==
    IF IsErr(walked) THEN walked
    ELSE Returning(HeapAssign(walked.heap, walked.pointer, el, value), copy)

InsertCopied(copied, path, value) ==
    InsertWalked(HeapWalk(copied.heap, copied.slot, path), copied.slot,
                 path[Len(path)], value)

\* _insert_value_or_dict_into_config on objects: the heap afterwards and the
\* returned config_copy, or the exception
HeapInsert(heap, config, path, value) ==
    IF path = <<>> THEN Raising(Err("IndexError"), heap)
    ELSE InsertCopied(deepcopy(heap, config), path, value)

GetRead(heap, slot) ==
    IF IsErr(slot) THEN Raising(slot, heap) ELSE [heap |-> heap, slot |-> slot]

GetWalked(walked, el) ==
    IF IsErr(walked) THEN walked
    ELSE GetRead(walked.heap, ReadAt(Held(walked.heap, walked.pointer), el))

GetCopied(copied, path) ==
    GetWalked(HeapWalk(copied.heap, copied.slot, path), path[Len(path)])

\* _get_value_from_config on objects: the heap afterwards and the returned
\* item of the copy, or the exception
HeapGet(heap, config, path) ==
    IF path = <<>> THEN Raising(Err("IndexError"), heap)
    ELSE GetCopied(deepcopy(heap, config), path)

(***************************************************************************)
(* str, pathlib.                                                           *)
(***************************************************************************)
DigitChars == <<"0", "1", "2", "3", "4", "5", "6", "7", "8", "9">>

\* str(v) of an int v >= 0
RECURSIVE IntStr(_)
IntStr(v) ==
    IF v < 10 THEN <<DigitChars[v + 1]>>
    ELSE Append(IntStr(v \div 10), DigitChars[(v % 10) + 1])

PopulationPrefix == <<"p", "o", "p", "u", "l", "a", "t", "i", "o", "n", "_">>

ModelPrefix == <<"m", "o", "d", "e", "l", "_">>

\* str(Path(base).joinpath(name)) for a normalised base and a relative name
PathJoin(base, name) ==
    IF base = <<>> \/ base = <<".">> THEN name
    ELSE IF base = <<"/">> THEN base \o name
    ELSE base \o <<"/">> \o name

\* str(Path(base).joinpath("population_" + str(iteration)).joinpath("model_" + str(j)))
SlotPath(base, iteration, j) ==
    PathJoin(PathJoin(base, PopulationPrefix \o IntStr(iteration)), ModelPrefix \o IntStr(j))

\* whether the str chars ends with the str tail
EndsWith(chars, tail) ==
    /\ Len(chars) >= Len(tail)
    /\ SubSeq(chars, Len(chars) - Len(tail) + 1, Len(chars)) = tail

(***************************************************************************)
(* Bounds of the model.                                                    *)
(***************************************************************************)
\* population_size ranges over 2..MaxPop
MaxPop == 3

\* first_generation and next_generation take iteration in 0..MaxIter
MaxIter == 1

\* no call is made that would take evolution_model_id above MaxId
MaxId == 6

\* scores range over -MaxNeg..MaxScore
MaxScore == 1

MaxNeg == 1

(***************************************************************************)
(* np.random.random() returns a float in [0, 1): a multiple of 2^-53.      *)
(* The draws of the model are the least, the least positive, the middle    *)
(* and the greatest such value.                                            *)
(***************************************************************************)
DrawZero == NumZero

DrawTiny == TwoPow(-Prec)

DrawHalf == TwoPow(-1)

DrawMax == NumSub(FromInt(1), TwoPow(-Prec))

Draws == {DrawZero, DrawTiny, DrawHalf, DrawMax}

(***************************************************************************)
(* The state of a ParamsEvolution object, and of its caller.               *)
(***************************************************************************)
VARIABLES
    basic_config,              \* self.basic_config
    main_model_path,           \* self.main_model_path
    paths_to_evolving_params,  \* self.paths_to_evolving_params
    population_size,           \* self.population_size
    p_crossover,               \* self.p_crossover
    crossover_power,           \* self.crossover_power
    p_mutation,                \* self.p_mutation
    mutation_power,            \* self.mutation_power
    elitism_with_weights,      \* self.elitism_with_weights
    n_saved_best_pretrained,   \* self.n_saved_best_pretrained
    evolution_model_id,        \* self.evolution_model_id
    constructed,               \* whether __init__ returned
    call,                      \* the method called last
    args,                      \* the arguments and the random draws of that call
    raised,                    \* the exception that call ended with, or "none"
    ret,                       \* the value that call returned
    generation,                \* the generation the caller holds
    issued,                    \* every identifier given to a new individual so far
    memory,                    \* the dicts and lists there are, self.basic_config first
    held                       \* the objects the caller holds, each with its
                               \* value when it was returned

vars == <<basic_config, main_model_path, paths_to_evolving_params, population_size,
          p_crossover, crossover_power, p_mutation, mutation_power,
          elitism_with_weights, n_saved_best_pretrained, evolution_model_id,
          constructed, call, args, raised, ret, generation, issued, memory, held>>

engine == <<basic_config, main_model_path, paths_to_evolving_params, population_size,
            p_crossover, crossover_power, p_mutation, mutation_power,
            elitism_with_weights, constructed>>

\* the objects; they are followed by the calls of SpecObjects, the other
\* calls work on values
objects == <<memory, held>>

n_evolving_params == Len(paths_to_evolving_params)

(***************************************************************************)
(* sample_params for one parameter, _sample_from_ranges.  The draw is the  *)
(* outcome of the one random call made: the position np.random.choice      *)
(* picks, or the value np.random.random gives np.random.uniform.           *)
(* scale = "log" (_sample_log) is outside the model: no spec of the model  *)
(* sets it.                                                                *)
(***************************************************************************)
\* np.random.uniform(from_, to_) = from_ + (to_ - from_) * random()
Uniform(from_, to_, r) == FAdd(from_, FMul(FSub(to_, from_), r))

\* int(np.round(sample)) if opts.get('discrete', False)
Discretised(opts, sample) ==
    IF GetTruthy(opts, "discrete") THEN IntV(NumRound(sample)) ELSE NumV(sample)

SampleBetween(opts, range, r) == Discretised(opts, Uniform(range[1].n, range[2].n, r))

sample_from_ranges(opts, r) ==
    SampleBetween(opts, DictGet(opts, Key("evolve_range")).l, r)

sample_params(param_val, draw) ==
    IF IsList(param_val) THEN
        IF param_val.l = <<>> THEN Err("ValueError") ELSE param_val.l[draw + 1]
    ELSE IF IsDict(param_val) THEN
        IF GetTruthy(param_val, "evolve_bool") THEN Bool(<<TRUE, FALSE>>[draw + 1])
        ELSE IF HasKey(param_val, Key("evolve_range"))
        THEN sample_from_ranges(param_val, draw)
        ELSE Err("UnboundLocalError")
    ELSE param_val

\* the draws sample_params can get for param_val
DrawsFor(param_val) ==
    IF IsList(param_val) THEN 0..(Len(param_val.l) - 1)
    ELSE IF IsDict(param_val) THEN
        IF GetTruthy(param_val, "evolve_bool") THEN 0..1
        ELSE IF HasKey(param_val, Key("evolve_range")) THEN Draws
        ELSE {0}
    ELSE {0}

(***************************************************************************)
(* initialize_params_in_config: every evolving path of a copy of the basic *)
(* config is overwritten with a sample of its spec.                        *)
(***************************************************************************)
\* what initialize_params_in_config hands to sample_params for the spec value
SampledSpec(value) ==
    IF ~IsDict(value) THEN None
    ELSE IF GetTruthy(value, "evolve_choice")
    THEN DictGetOr(value, Key("values"), Err("KeyError"))
    ELSE IF GetTruthy(value, "evolve_range") \/ GetTruthy(value, "evolve_bool") THEN value
    ELSE None

\* config with the sample written at path
PutSample(config, path, sample) ==
    IF IsErr(sample) THEN sample
    ELSE insert_value_or_dict_into_config(config, path, sample)

\* one pass of the loop over paths, for the spec found at path
Overwritten(config, path, spec, draw) ==
    IF spec = None THEN config
    ELSE IF IsErr(spec) THEN spec
    ELSE PutSample(config, path, sample_params(spec, draw))

RECURSIVE InitializeFrom(_, _, _, _, _)
InitializeFrom(config, basic, paths, draws, j) ==
    IF j > Len(paths) \/ IsErr(config) THEN config
    ELSE InitializeFrom(
             Overwritten(config, paths[j],
                         SampledSpec(get_value_from_config(basic, paths[j])), draws[j]),
             basic, paths, draws, j + 1)

initialize_params_in_config(basic, paths, draws) ==
    InitializeFrom(basic, basic, paths, draws, 1)

\* the draws the pass for spec can get
DrawsAt(spec) == IF spec = None \/ IsErr(spec) THEN {0} ELSE DrawsFor(spec)

\* the sequences of draws initialize_params_in_config can get
RECURSIVE DrawSeqs(_, _, _)
DrawSeqs(basic, paths, j) ==
    IF j > Len(paths) THEN {<<>>}
    ELSE {<<dr>> \o rest :
             dr \in DrawsAt(SampledSpec(get_value_from_config(basic, paths[j]))),
             rest \in DrawSeqs(basic, paths, j + 1)}

(***************************************************************************)
(* __init__.                                                               *)
(***************************************************************************)
EvolveTypes == <<"evolve_range", "evolve_choice", "evolve_bool">>

EvolvingPaths(config) ==
    find_model_path(config, Key(EvolveTypes[1]), <<>>)
    \o find_model_path(config, Key(EvolveTypes[2]), <<>>)
    \o find_model_path(config, Key(EvolveTypes[3]), <<>>)

\* the exception the read of the main model's save_path ends __init__ with
SavePathRaises(sp) ==
    IF IsErr(sp) THEN sp.err
    ELSE IF ~IsStr(sp) THEN "TypeError"
    ELSE "none"

\* the exception __init__ raises for kwargs, or "none", for the paths found
\* to key_main_model
InitRaises(kwargs, found) ==
    IF found = <<>> THEN "IndexError"
    ELSE SavePathRaises(get_value_from_config(kwargs, Append(found[1], Key("save_path"))))

\* the defaults of __init__
DefaultP == TwoPow(-1)

DefaultMutationPower == FDivInt(1, 10)

Constructed(kwargs, n, found, error) ==
    /\ basic_config = kwargs
    /\ main_model_path = IF found = <<>> THEN <<>> ELSE found[1]
    /\ population_size = n
    /\ p_crossover = DefaultP
    /\ crossover_power = DefaultP
    /\ p_mutation = DefaultP
    /\ mutation_power = DefaultMutationPower
    /\ elitism_with_weights = FALSE
    /\ n_saved_best_pretrained = 0
    /\ paths_to_evolving_params = IF error = "none" THEN EvolvingPaths(kwargs) ELSE <<>>
    /\ evolution_model_id = 0
    /\ constructed = (error = "none")
    /\ call = "__init__"
    /\ args = None
    /\ raised = error
    /\ ret = None
    /\ generation = <<>>
    /\ issued = <<>>
    /\ memory = Store(<<>>, kwargs).heap
    /\ held = <<>>

ConstructFound(kwargs, n, found) == Constructed(kwargs, n, found, InitRaises(kwargs, found))

Construct(kwargs, n, key_main_model) ==
    ConstructFound(kwargs, n, find_model_path(kwargs, Key(key_main_model), <<>>))

(***************************************************************************)
(* first_generation.                                                       *)
(***************************************************************************)
\* population[-1] = self._insert_value_or_dict_into_config(population[-1],
\*                      self.main_model_path + [which_path], slot)
PutPath(config, which_path, slot) ==
    IF IsErr(config) THEN config
    ELSE insert_value_or_dict_into_config(config,
             Append(main_model_path, Key(which_path)), slot)

\* population[-1]["evolution_model_id"] = id
PutId(config, id) ==
    IF IsErr(config) THEN config
    ELSE DictPut(config, Key("evolution_model_id"), IntV(id))

\* the individual made of config for i = j, root being basic_config["save_path"]
Individual(config, root, j, iteration, id) ==
    IF IsErr(config) THEN config
    ELSE IF IsErr(root) THEN root
    ELSE IF ~IsStr(root) THEN Err("TypeError")
    ELSE PutId(PutPath(PutPath(config, "save_path", Str(SlotPath(root.s, iteration, j))),
                       "load_path", Str(SlotPath(root.s, iteration, j))), id)

\* one pass of the loop body for i = j (from 0) with the identifier id
NewIndividual(j, iteration, id, draws) ==
    Individual(initialize_params_in_config(basic_config, paths_to_evolving_params, draws),
               DictGetOr(basic_config, Key("save_path"), Err("KeyError")),
               j, iteration, id)

\* first_generation with the counter read once, before the loop
StaleCounter(iteration, draws) ==
    [population |-> [j \in 1..population_size |->
                        NewIndividual(j - 1, iteration, evolution_model_id, draws[j])],
     raised |-> "none", id |-> evolution_model_id + population_size]

\* the first pass of the loop that raised, 0 when none did
FirstFailed(made) ==
    IF \E j \in DOMAIN made : IsErr(made[j])
    THEN CHOOSE j \in DOMAIN made : IsErr(made[j]) /\ \A q \in 1..(j - 1) : ~IsErr(made[q])
    ELSE 0

FirstGenerationEnd(made, f) ==
    IF f = 0
    THEN [population |-> made, raised |-> "none", id |-> evolution_model_id + Len(made)]
    ELSE [population |-> <<>>, raised |-> made[f].err, id |-> evolution_model_id + f - 1]

FirstGenerationOf(made) == FirstGenerationEnd(made, FirstFailed(made))

\* the population returned, or the exception raised, and the counter afterwards
first_generation(iteration, draws) ==
    FirstGenerationOf([j \in 1..population_size |->
        NewIndividual(j - 1, iteration, evolution_model_id + j - 1, draws[j])])

\* individual["evolution_model_id"]
IdOf(individual) == NumToInt(DictGet(individual, Key("evolution_model_id")).n)

IdsOf(population) == [j \in 1..Len(population) |-> IdOf(population[j])]

FirstGenerationCall(iterations, max_id) ==
    /\ constructed
    /\ evolution_model_id + population_size <= max_id
    /\ \E iteration \in iterations :
       \E draws \in [1..population_size ->
                        DrawSeqs(basic_config, paths_to_evolving_params, 1)] :
          \E res \in {first_generation(iteration, draws)} :
              /\ call' = "first_generation"
              /\ args' = [iteration |-> iteration]
              /\ evolution_model_id' = res.id
              /\ issued' = issued \o IdsOf(res.population)
              /\ raised' = res.raised
              /\ IF res.raised # "none"
                 THEN /\ ret' = None
                      /\ generation' = generation
                 ELSE /\ ret' = res.population
                      /\ generation' = res.population
    /\ UNCHANGED <<engine, objects, n_saved_best_pretrained>>

(***************************************************************************)
(* decision, selection_of_best_with_weights.                               *)
(***************************************************************************)
\* decision(probability) when np.random.random() gives r
decision(probability, r) == XLess(r, probability)

\* np.argsort(scores): the orders of the indices (from 1) that sort scores
\* ascending; the default sort is not stable, so equal scores come in any order
Argsorts(scores) ==
    {p \in Permutations(1..Len(scores)) :
        \A j \in 1..(Len(scores) - 1) : scores[p[j]] <= scores[p[j + 1]]}

\* ranges: population_size - (the position, from 0, of i in sorted_ids)
RangesOf(sorted_ids, n) ==
    [j \in 1..n |-> n - ((CHOOSE q \in 1..n : sorted_ids[q] = j) - 1)]

\* probas_to_be_selected = a * ranges + b, for one element of ranges, with
\* a = 1. / (1. - population_size) and b = population_size / (population_size - 1.)
ProbaToBeSelected(range, n) ==
    FAdd(FMul(FDivInt(1, 1 - n), FromInt(range)), FDivInt(n, n - 1))

\* the elements of seq at the positions in kept, in order
Pick(seq, kept) ==
    [q \in 1..Cardinality(kept) |->
        seq[CHOOSE j \in kept : Cardinality({h \in kept : h < j}) = q - 1]]

\* the values of ranges for which decision(probas_to_be_selected[i]) can
\* come out as the Boolean outcome
RangesDeciding(outcome, n) ==
    {range \in 1..n :
        \E r \in Draws : decision(ProbaToBeSelected(range, n), r) = outcome}

\* the loop over the population draws once for each individual: those for
\* whom decision can only come out True, and those for whom it can come out
\* either way
DecisionClasses(ranges, can_keep, can_drop) ==
    <<{j \in DOMAIN ranges : ranges[j] \notin can_drop},
      {j \in DOMAIN ranges : ranges[j] \in can_keep /\ ranges[j] \in can_drop}>>

\* the sets of individuals for which decision can come out True together
KeptSets(scores, can_keep, can_drop) ==
    UNION {{class[1] \cup free : free \in SUBSET class[2]} :
              class \in {DecisionClasses(RangesOf(sorted_ids, Len(scores)),
                                         can_keep, can_drop) :
                            sorted_ids \in Argsorts(scores)}}

\* selected, for the set kept of the individuals whose decision was True
selection_of_best_with_weights(population, kept) == Pick(population, kept)

SelectionCall(score_values) ==
    /\ constructed
    /\ call = "first_generation"
    /\ raised = "none"
    /\ \E can_keep \in {RangesDeciding(TRUE, population_size)} :
       \E can_drop \in {RangesDeciding(FALSE, population_size)} :
       \E scores \in [1..population_size -> score_values] :
       \E kept \in KeptSets(scores, can_keep, can_drop) :
       \E selected \in {selection_of_best_with_weights(generation, kept)} :
          /\ call' = "selection_of_best_with_weights"
          /\ args' = [scores |-> scores]
          /\ raised' = "none"
          /\ ret' = selected
          /\ n_saved_best_pretrained' = Len(selected)
    /\ UNCHANGED <<engine, objects, evolution_model_id, generation, issued>>

(***************************************************************************)
(* crossover.  Each pass of its loop makes one offspring from two random   *)
(* draws for the parents, one for the gate and, when the gate fires, one   *)
(* random permutation of the evolving parameters.                          *)
(***************************************************************************)
RECURSIVE SumInts(_, _)
SumInts(scores, j) ==
    IF j > Len(scores) THEN 0 ELSE scores[j] + SumInts(scores, j + 1)

\* the running sum of a float loop over xs[j..], from acc
RECURSIVE SumFrom(_, _, _)
SumFrom(xs, j, acc) ==
    IF j > Len(xs) THEN acc ELSE SumFrom(xs, j + 1, XAdd(acc, xs[j]))

\* np.sum of fewer than nine floats: the first one plus the sum of the others
NpSum(xs) ==
    IF xs = <<>> THEN NumZero ELSE XAdd(xs[1], SumFrom(xs, 2, NumZero))

\* probas = scores / np.sum(scores); intervals[i] = np.sum(probas[:i])
crossover_intervals(scores) ==
    LET total  == SumInts(scores, 1)
        probas == [j \in 1..Len(scores) |-> XDivInt(scores[j], total)]
    IN  [j \in 1..Len(scores) |-> NpSum(SubSeq(probas, 1, j - 1))]

\* the greatest element of a set of positive integers, 0 for the empty set
LastOf(S) == IF S = {} THEN 0 ELSE CHOOSE j \in S : \A q \in S : q <= j

\* np.where(r > intervals)[0][-1], from 1; 0 when no interval is below r,
\* where the [-1] raises IndexError
ParentFor(intervals, r) == LastOf({j \in 1..Len(intervals) : XLess(intervals[j], r)})

\* every evolving parameter, whatever the power
AllParams(power, n) == n

\* part = int(crossover_power * self.n_evolving_params)
CrossoverPart(power, n) == NumTrunc(FMul(power, FromInt(n)))

\* seq[j] of Python for j from -Len(seq): the position from 1, 0 out of range
PyIndex(n, j) ==
    IF j >= 0 /\ j < n THEN j + 1
    ELSE IF j < 0 /\ n + j >= 0 THEN n + j + 1
    ELSE 0

\* the first offspring after one pass of the loop over j, for the value read
\* in the second parent and the one read in the first
Exchanged(child, path, value, back) ==
    IF IsErr(value) THEN value
    ELSE IF IsErr(back) THEN back
    ELSE insert_value_or_dict_into_config(child, path, value)

\* the pass for self.paths_to_evolving_params[params_perm[j]], pos being the
\* place of j in params_perm
ExchangeAt(child, first, second, paths, perm, pos) ==
    IF pos = 0 THEN Err("IndexError")
    ELSE Exchanged(child, paths[perm[pos]],
                   get_value_from_config(second, paths[perm[pos]]),
                   get_value_from_config(first, paths[perm[pos]]))

\* the loop over j in range(from_, n) on the first offspring: the parameter
\* at params_perm[j] takes the value of the second parent
RECURSIVE Exchange(_, _, _, _, _, _)
Exchange(child, first, second, paths, perm, j) ==
    IF j >= Len(paths) \/ IsErr(child) THEN child
    ELSE Exchange(ExchangeAt(child, first, second, paths, perm, PyIndex(Len(paths), j)),
                  first, second, paths, perm, j + 1)

\* the end of a pass whose gate fired
CrossedPass(child, one, two, perm) ==
    IF IsErr(child) THEN [raised |-> child.err]
    ELSE [raised |-> "none", offspring |-> child,
          parents |-> <<one, two>>, fired |-> TRUE, perm |-> perm]

\* one pass of the loop for the parents at one and two (0: np.where found
\* nothing), the outcome fires of decision(p_crossover) and params_perm
PassOf(population, one, two, fires, power, paths, perm) ==
    IF one = 0 \/ two = 0 THEN [raised |-> "IndexError"]
    ELSE IF ~fires
    THEN [raised |-> "none", offspring |-> population[one],
          parents |-> <<one, two>>, fired |-> FALSE, perm |-> <<>>]
    ELSE CrossedPass(Exchange(population[one], population[one], population[two],
                              paths, perm,
                              Len(paths) - CrossoverPart(power, Len(paths))),
                     one, two, perm)

\* one pass of the loop: the offspring appended, or the exception raised,
\* for the draws rs, the gate draw rg and the permutation perm
crossover_pass(population, intervals, p, power, paths, rs, rg, perm) ==
    PassOf(population, ParentFor(intervals, rs[1]), ParentFor(intervals, rs[2]),
           decision(p, rg), power, paths, perm)

\* the passes for the parents in wheel and the gate outcomes in gates
PassesOn(population, wheel, gates, power, paths) ==
    {PassOf(population, one, two, fires, power, paths, perm) :
        one \in wheel, two \in wheel, fires \in gates,
        perm \in Permutations(1..Len(paths))}

\* what one pass of the loop can do over the draws
PassOutcomes(population, intervals, p, power, paths) ==
    PassesOn(population, {ParentFor(intervals, r) : r \in Draws},
             {decision(p, rg) : rg \in Draws}, power, paths)

\* the value crossover returns, or the exception it raises, when its passes
\* do outs in turn: the first exception ends the call
RECURSIVE crossover(_, _)
crossover(outs, j) ==
    IF j > Len(outs) THEN [raised |-> "none", offsprings |-> <<>>, drawn |-> <<>>]
    ELSE IF outs[j].raised # "none" THEN [raised |-> outs[j].raised]
    ELSE LET rest == crossover(outs, j + 1)
         IN  IF rest.raised # "none" THEN rest
             ELSE [raised |-> "none",
                   offsprings |-> <<outs[j].offspring>> \o rest.offsprings,
                   drawn |-> <<[parents |-> outs[j].parents, fired |-> outs[j].fired,
                                perm |-> outs[j].perm]>> \o rest.drawn]

\* scores a roulette wheel can be built on: none negative, a positive sum
ValidScores(scores) ==
    /\ \A j \in 1..Len(scores) : scores[j] >= 0
    /\ SumInts(scores, 1) > 0

CrossoverCall(score_values, ps, powers) ==
    /\ constructed
    /\ call \in {"first_generation", "selection_of_best_with_weights"}
    /\ raised = "none"
    /\ \E p \in ps, power \in powers :
       \E case \in {<<ValidScores(scores),
                      PassOutcomes(generation, crossover_intervals(scores), p, power,
                                   paths_to_evolving_params)>> :
                       scores \in [1..population_size -> score_values]} :
       \E outs \in [1..(population_size - n_saved_best_pretrained) -> case[2]] :
       \E res \in {crossover(outs, 1)} :
          /\ call' = "crossover"
          /\ raised' = res.raised
          /\ IF res.raised # "none"
             THEN /\ ret' = None
                  /\ args' = [valid |-> case[1], p_crossover |-> p,
                              crossover_power |-> power, drawn |-> <<>>]
             ELSE /\ ret' = res.offsprings
                  /\ args' = [valid |-> case[1], p_crossover |-> p,
                              crossover_power |-> power, drawn |-> res.drawn]
    /\ UNCHANGED <<engine, objects, n_saved_best_pretrained, evolution_model_id, generation, issued>>

(***************************************************************************)
(* mutation_of_param, for the spec params_dict[param].  rg is the draw of  *)
(* the gate, r the draw of the step and draw the one of sample_params.     *)
(***************************************************************************)
\* a Python number or bool as a float
AsNum(v) == IF IsBool(v) THEN (IF v.b THEN FromInt(1) ELSE NumZero) ELSE v.n

\* (2 * r - 1.) * mutation_power * sample
MutationStep(r, power, sample) ==
    FMul(FMul(FSub(FMul(FromInt(2), r), FromInt(1)), power), sample)

\* the value as it is
Unclamped(low, val, high) == val

\* max(a, b) and min(a, b) of Python: the first argument unless the second
\* is greater, or less
NumMax(a, b) == IF NumLess(a, b) THEN b ELSE a

NumMin(a, b) == IF NumLess(b, a) THEN b ELSE a

\* min(max(low, val), high)
Clamp(low, val, high) == NumMin(NumMax(low, val), high)

\* round(moved) for a spec with discrete set
Rounded(discrete, moved) == IF discrete THEN FromInt(NumRound(moved)) ELSE moved

\* min(max(range[0], val), range[1])
ClampedTo(range, val) == NumV(Clamp(range[1].n, val, range[2].n))

\* the new value for the sample that sample_params gave
MutatedWith(spec, param_value, power, r, discrete, sample) ==
    IF IsErr(sample) THEN sample
    ELSE IF ~(IsNum(param_value) \/ IsBool(param_value)) THEN Err("TypeError")
    ELSE IF ~HasKey(spec, Key("evolve_range")) THEN Err("KeyError")
    ELSE ClampedTo(DictGet(spec, Key("evolve_range")).l,
                   Rounded(discrete, FAdd(AsNum(param_value),
                                          MutationStep(r, power, AsNum(sample)))))

\* the branches for a spec with discrete set, and for one with evolve_range
MutateInRange(spec, param_value, power, r, draw, discrete) ==
    MutatedWith(spec, param_value, power, r, discrete, sample_params(spec, draw))

mutation_of_param(spec, param_value, p, power, rg, r, draw) ==
    IF ~decision(p, rg) THEN param_value
    ELSE IF ~IsDict(spec) THEN param_value
    ELSE IF GetTruthy(spec, "discrete") \/ HasKey(spec, Key("evolve_range"))
    THEN MutateInRange(spec, param_value, power, r, draw, GetTruthy(spec, "discrete"))
    ELSE IF GetTruthy(spec, "evolve_choice") THEN sample_params(spec, draw)
    ELSE param_value

MutationOfParamCall(specs, values, ps, powers) ==
    /\ constructed
    /\ call # "mutation_of_param"
    /\ \E spec \in specs, param_value \in values, p \in ps, power \in powers :
       \E rg \in Draws, r \in Draws :
       \E draw \in DrawsFor(spec) :
       \E res \in {mutation_of_param(spec, param_value, p, power, rg, r, draw)} :
          /\ call' = "mutation_of_param"
          /\ args' = [spec |-> spec, param_value |-> param_value, p_mutation |-> p,
                      mutation_power |-> power, fired |-> decision(p, rg)]
          /\ IF IsErr(res)
             THEN /\ raised' = res.err
                  /\ ret' = None
             ELSE /\ raised' = "none"
                  /\ ret' = res
    /\ UNCHANGED <<engine, objects, n_saved_best_pretrained, evolution_model_id, generation, issued>>

(***************************************************************************)
(* mutation: the loops read self.dataset_iterator_params, self.params and  *)
(* self.train_params, which no line of the class assigns.                  *)
(***************************************************************************)
mutation(population) ==
    IF population = <<>> THEN [raised |-> "none", mutated |-> <<>>]
    ELSE [raised |-> "AttributeError"]

(***************************************************************************)
(* next_generation.                                                        *)
(***************************************************************************)
\* if not p: p = self.p, for an argument that is None or a number
OrDefault(p, default) == IF p = None \/ ~Truthy(p) THEN default ELSE p.n

\* the four optional arguments of next_generation as the caller gives them
Given(p, power, pm, mpower) ==
    [p_crossover |-> p, crossover_power |-> power,
     p_mutation |-> pm, mutation_power |-> mpower]

\* the four after the "if not" lines: what crossover and mutation are handed
Effective(given) ==
    [p_crossover     |-> OrDefault(given.p_crossover, p_crossover),
     crossover_power |-> OrDefault(given.crossover_power, crossover_power),
     p_mutation      |-> OrDefault(given.p_mutation, p_mutation),
     mutation_power  |-> OrDefault(given.mutation_power, mutation_power)]

\* str(Path(chars).parent) for a normalised chars
RECURSIVE PathParent(_)
PathParent(chars) ==
    IF chars = <<>> THEN <<".">>
    ELSE IF chars[Len(chars)] = "/"
    THEN (IF Len(chars) = 1 THEN chars ELSE SubSeq(chars, 1, Len(chars) - 1))
    ELSE PathParent(SubSeq(chars, 1, Len(chars) - 1))

\* self._get_value_from_config(individual, self.main_model_path + [which])
SavedAt(individual, which) ==
    get_value_from_config(individual, Append(main_model_path, Key(which)))

\* self._insert_value_or_dict_into_config(individual, at, value) for the str at
\* read in the config: the call gets it as its path
InsertAt(individual, at, value) ==
    IF IsErr(at) THEN at
    ELSE IF IsErr(value) THEN value
    ELSE IF ~IsStr(at) THEN Err("TypeError")
    ELSE insert_value_or_dict_into_config(individual, StrAsPath(at), value)

\* self._insert_value_or_dict_into_config(individual,
\*     self._get_value_from_config(individual, self.main_model_path + [which]), value)
InsertAtValueOf(individual, which, value) ==
    InsertAt(individual, SavedAt(individual, which), value)

\* str(Path(at).joinpath("population_" + ...).joinpath("model_" + ...))
SlotFrom(at, iteration, j) ==
    IF IsErr(at) THEN at
    ELSE IF ~IsStr(at) THEN Err("TypeError")
    ELSE Str(SlotPath(at.s, iteration, j))

SlotOf(individual, which, iteration, j) ==
    SlotFrom(SavedAt(individual, which), iteration, j)

\* str(Path(at).parent)
ParentFrom(at) ==
    IF IsErr(at) THEN at
    ELSE IF ~IsStr(at) THEN Err("TypeError")
    ELSE Str(PathParent(at.s))

\* str(Path(<value at save_path>).parent)
ParentOfSaved(individual) == ParentFrom(SavedAt(individual, "save_path"))

\* the call that is to write the slot of iteration and i = j at which
MoveToSlot(individual, which, iteration, j) ==
    IF IsErr(individual) THEN individual
    ELSE InsertAtValueOf(individual, which, SlotOf(individual, which, iteration, j))

\* the branch on self.elitism_with_weights
LoadElite(individual, iteration, j) ==
    IF elitism_with_weights
    THEN InsertAtValueOf(individual, "load_path", ParentOfSaved(individual))
    ELSE MoveToSlot(individual, "load_path", iteration, j)

\* one pass of the first loop, for the elite at i = j (from 0).  The try
\* block reads "lear_rate" and a file of the last training; any exception in
\* it is swallowed, and it changes nothing here
RewriteElite(individual, iteration, j) ==
    MoveToSlot(LoadElite(individual, iteration, j), "save_path", iteration, j)

\* one pass of the second loop, for the offspring at i = j (from 0)
RewriteOffspring(individual, iteration, j, id) ==
    PutId(MoveToSlot(MoveToSlot(individual, "save_path", iteration, j),
                     "load_path", iteration, j), id)

RewriteEnd(made, f, n_saved) ==
    IF f = 0
    THEN [raised |-> "none", population |-> made,
          id |-> evolution_model_id + Len(made) - n_saved]
    ELSE [raised |-> made[f].err, population |-> <<>>,
          id |-> evolution_model_id + MaxOf(0, f - 1 - n_saved)]

RewriteOf(made, n_saved) == RewriteEnd(made, FirstFailed(made), n_saved)

\* the two loops over next_population
Rewrite(next_population, n_saved, iteration) ==
    RewriteOf([j \in 1..Len(next_population) |->
                  IF j <= n_saved
                  THEN RewriteElite(next_population[j], iteration, j - 1)
                  ELSE RewriteOffspring(next_population[j], iteration, j - 1,
                                        evolution_model_id + (j - n_saved) - 1)],
              n_saved)

\* the generation returned, or the exception raised, and the counter
\* afterwards, when selection keeps kept and crossover ends as crossed
next_generation(population, iteration, kept, crossed) ==
    LET selected == selection_of_best_with_weights(population, kept)
        mutated  == mutation(crossed.offsprings)
    IN  IF crossed.raised # "none"
        THEN [raised |-> crossed.raised, population |-> <<>>, id |-> evolution_model_id]
        ELSE IF mutated.raised # "none"
        THEN [raised |-> mutated.raised, population |-> <<>>, id |-> evolution_model_id]
        ELSE Rewrite(selected \o mutated.mutated, Len(selected), iteration)

\* a pass of crossover without the record of its draws
Emitted(out) ==
    IF out.raised # "none" THEN out
    ELSE [out EXCEPT !.parents = <<>>, !.fired = FALSE, !.perm = <<>>]

\* what the scores decide in next_generation: the sets selection can keep,
\* and the intervals of crossover
ScoreCase(scores, can_keep, can_drop) ==
    <<KeptSets(scores, can_keep, can_drop), crossover_intervals(scores)>>

NextGeneration(score_values, ps, others) ==
    /\ constructed
    /\ call = "first_generation"
    /\ raised = "none"
    /\ \E can_keep \in {RangesDeciding(TRUE, population_size)} :
       \E can_drop \in {RangesDeciding(FALSE, population_size)} :
       \E case \in {ScoreCase(scores, can_keep, can_drop) :
                       scores \in [1..population_size -> score_values]} :
       \E given \in {Given(p, power, pm, mpower) :
                        p \in ps, power \in others, pm \in others, mpower \in others} :
       \E used \in {Effective(given)} :
       \E passes \in {{Emitted(out) :
                          out \in PassOutcomes(generation, case[2],
                                               used.p_crossover, used.crossover_power,
                                               paths_to_evolving_params)}} :
       \E kept \in case[1] :
       \E iteration \in 0..MaxIter :
       \E res \in {next_generation(generation, iteration, kept, crossover(outs, 1)) :
                      outs \in [1..(population_size - Cardinality(kept)) -> passes]} :
          /\ call' = "next_generation"
          /\ args' = [iteration |-> iteration, given |-> given, used |-> used]
          /\ n_saved_best_pretrained' = Cardinality(kept)
          /\ evolution_model_id' = res.id
          /\ raised' = res.raised
          /\ IF res.raised # "none"
             THEN /\ ret' = None
                  /\ generation' = generation
                  /\ issued' = issued
             ELSE /\ ret' = res.population
                  /\ generation' = res.population
                  /\ issued' = issued \o IdsOf(SubSeq(res.population, Cardinality(kept) + 1,
                                                      Len(res.population)))
    /\ UNCHANGED <<engine, objects>>

(***************************************************************************)
(* The basic configs of the model.                                         *)
(***************************************************************************)
RootPath == <<"s">>

\* a main-model sub-tree with the evolving parameters params
MainModel(params) ==
    Dict(<<<<Key("main"), Bool(TRUE)>>,
           <<Key("save_path"), Str(RootPath)>>,
           <<Key("load_path"), Str(RootPath)>>>> \o params)

ChoiceSpec == Dict(<<<<Key("evolve_choice"), Bool(TRUE)>>,
                     <<Key("values"), List(<<IntV(1), IntV(2)>>)>>>>)

BoolSpec == Dict(<<<<Key("evolve_bool"), Bool(TRUE)>>>>)

\* one main model, two evolving parameters
ConfigTwoParams ==
    Dict(<<<<Key("save_path"), Str(RootPath)>>,
           <<Key("model"), MainModel(<<<<Key("units"), ChoiceSpec>>,
                                       <<Key("bias"), BoolSpec>>>>)>>>>)

\* the main model is an element of a list, as in chainer.pipe
ConfigInPipe ==
    Dict(<<<<Key("save_path"), Str(RootPath)>>,
           <<Key("pipe"), List(<<Dict(<<<<Key("name"), Str(<<"t">>)>>>>),
                                 MainModel(<<<<Key("bias"), BoolSpec>>>>)>>)>>>>)

\* no sub-tree carries the marker
ConfigNoMain ==
    Dict(<<<<Key("save_path"), Str(RootPath)>>,
           <<Key("model"), Dict(<<<<Key("save_path"), Str(RootPath)>>>>)>>>>)

\* two sub-trees carry the marker
ConfigTwoMain ==
    Dict(<<<<Key("save_path"), Str(RootPath)>>,
           <<Key("model"), MainModel(<<>>)>>,
           <<Key("other"), MainModel(<<>>)>>>>)

BasicConfigs == {ConfigInPipe, ConfigNoMain, ConfigTwoMain}

Init ==
    \E kwargs \in BasicConfigs, n \in 2..MaxPop : Construct(kwargs, n, "main")

FirstGeneration == FirstGenerationCall(0..MaxIter, MaxId)

NextPs == {None, NumV(NumZero)}

NextGenerationCall == NextGeneration((-MaxNeg)..MaxScore, NextPs, {None})

Next == FirstGeneration \/ NextGenerationCall

Spec == Init /\ [][Next]_vars

(***************************************************************************)
(* Selection alone, on populations of up to MaxPopSel individuals.         *)
(***************************************************************************)
MaxPopSel == 7

MaxScoreSel == 1

InitSel ==
    \E n \in 2..MaxPopSel : Construct(ConfigTwoMain, n, "main")

FirstGenerationSel == FirstGenerationCall({0}, population_size)

SelectionSel == SelectionCall(0..MaxScoreSel)

NextSel == FirstGenerationSel \/ SelectionSel

SpecSel == InitSel /\ [][NextSel]_vars

(***************************************************************************)
(* Crossover after a selection, on one generation with two evolving        *)
(* parameters.                                                             *)
(***************************************************************************)
CrossoverPs == {NumZero, DefaultP}

CrossoverPowers == {NumZero, DefaultP, FromInt(1)}

MaxPopCross == 2

InitCross ==
    \E n \in 2..MaxPopCross : Construct(ConfigTwoParams, n, "main")

FirstGenerationCross == FirstGenerationCall({0}, population_size)

SelectionCross == SelectionCall(0..MaxScore)

CrossoverCross == CrossoverCall((-MaxNeg)..MaxScore, CrossoverPs, CrossoverPowers)

NextCross == FirstGenerationCross \/ SelectionCross \/ CrossoverCross

SpecCross == InitCross /\ [][NextCross]_vars

(***************************************************************************)
(* mutation_of_param alone, on the specs one parameter can have.           *)
(***************************************************************************)
\* {"evolve_range": [low, high]}, with "discrete": True when discrete
RangeSpec(low, high, discrete) ==
    Dict(<<<<Key("evolve_range"), List(<<NumV(low), NumV(high)>>)>>>>
         \o (IF discrete THEN <<<<Key("discrete"), Bool(TRUE)>>>> ELSE <<>>))

MaxHigh == 2

\* a continuous range, a discrete one, and a discrete one between two halves
ParamSpecs ==
    {RangeSpec(NumZero, FromInt(1), FALSE),
     RangeSpec(NumZero, FromInt(MaxHigh), TRUE),
     RangeSpec(TwoPow(-1), NumAdd(FromInt(MaxHigh), TwoPow(-1)), TRUE),
     ChoiceSpec, BoolSpec}

\* the current values of the parameter
ParamValues == {NumV(TwoPow(-1))} \cup {IntV(v) : v \in 0..MaxHigh}

MutationPs == {NumZero, DefaultP, FromInt(1)}

MutationPowers == {DefaultMutationPower, FromInt(1)}

InitParam == Construct(ConfigInPipe, 2, "main")

MutationOfParam == MutationOfParamCall(ParamSpecs, ParamValues, MutationPs, MutationPowers)

NextParam == MutationOfParam

SpecParam == InitParam /\ [][NextParam]_vars

(***************************************************************************)
(* sample_params alone, on range specs whose bounds are halves, and        *)
(* first_generation on a config with a discrete range between two halves.  *)
(***************************************************************************)
\* the bounds of the sampled ranges are 0/2, 1/2, ..., MaxHalves/2
MaxHalves == 4

\* k / 2
Half(k) == NumMul(FromInt(k), TwoPow(-1))

SampleSpecs ==
    {RangeSpec(Half(lo), Half(hi), discrete) :
        lo \in 0..MaxHalves, hi \in 0..MaxHalves, discrete \in BOOLEAN}

\* one main model, one discrete range parameter between 1/2 and 3/2
ConfigDiscrete ==
    Dict(<<<<Key("save_path"), Str(RootPath)>>,
           <<Key("model"), MainModel(<<<<Key("units"),
                                         RangeSpec(Half(1), Half(3), TRUE)>>>>)>>>>)

\* sample_params(**{param: spec})[param] for the draw of the one random call
SampleParamsCall(specs) ==
    /\ constructed
    /\ call # "sample_params"
    /\ \E spec \in specs :
       \E draw \in DrawsFor(spec) :
       \E res \in {sample_params(spec, draw)} :
          /\ call' = "sample_params"
          /\ args' = [spec |-> spec, draw |-> draw]
          /\ IF IsErr(res)
             THEN /\ raised' = res.err
                  /\ ret' = None
             ELSE /\ raised' = "none"
                  /\ ret' = res
    /\ UNCHANGED <<engine, objects, n_saved_best_pretrained, evolution_model_id, generation, issued>>

InitSample == Construct(ConfigDiscrete, 2, "main")

FirstGenerationSample == FirstGenerationCall({0}, population_size)

SampleParams == SampleParamsCall({s \in SampleSpecs :
    NumLeq(DictGet(s, Key("evolve_range")).l[1].n, DictGet(s, Key("evolve_range")).l[2].n)})

NextSample == FirstGenerationSample \/ SampleParams

SpecSample == InitSample /\ [][NextSample]_vars

(***************************************************************************)
(* The calls on objects.  Each works on the heap as the code does: what it *)
(* copies, what it changes in place and what it hands on by reference.     *)
(* self.basic_config is object 1.  A call in progress is the heap so far   *)
(* with the config (or the configs) it is building, or the exception.      *)
(***************************************************************************)
BasicObject == [ref |-> 1]

\* initialize_params_in_config, one pass of the loop: the sample is a number,
\* a bool or an item of the list of values, the spec read from basic_config
\* is a copy nobody keeps
ObjInsertSample(heap, config, path, sample) ==
    IF IsErr(sample) THEN Raising(sample, heap)
    ELSE HeapInsert(heap, config, path, sample)

ObjPutSample(heap, config, path, spec, draw) ==
    IF spec = None THEN [heap |-> heap, slot |-> config]
    ELSE IF IsErr(spec) THEN Raising(spec, heap)
    ELSE ObjInsertSample(heap, config, path, sample_params(spec, draw))

ObjOverwritten(got, config, path, draw) ==
    IF IsErr(got) THEN got
    ELSE ObjPutSample(got.heap, config, path,
                      SampledSpec(Deref(got.heap, got.slot)), draw)

RECURSIVE ObjInitializeFrom(_, _, _, _)
ObjInitializeFrom(made, paths, draws, j) ==
    IF j > Len(paths) \/ IsErr(made) THEN made
    ELSE ObjInitializeFrom(
             ObjOverwritten(HeapGet(made.heap, BasicObject, paths[j]),
                            made.slot, paths[j], draws[j]),
             paths, draws, j + 1)

\* config = deepcopy(basic_config), then the loop
ObjInitialize(heap, paths, draws) ==
    ObjInitializeFrom(deepcopy(heap, BasicObject), paths, draws, 1)

\* population[-1] = self._insert_value_or_dict_into_config(population[-1], ...)
ObjPutPath(made, path, value) ==
    IF IsErr(made) THEN made ELSE HeapInsert(made.heap, made.slot, path, value)

\* population[-1]["evolution_model_id"] = id, in place
ObjPutId(made, id) ==
    IF IsErr(made) THEN made
    ELSE Returning(HeapAssign(made.heap, made.slot, Key("evolution_model_id"), IntV(id)),
                   made.slot)

\* one pass of the loop of first_generation for i = j (from 0)
ObjIndividual(made, main, root, j, iteration, id) ==
    IF IsErr(made) THEN made
    ELSE IF IsErr(root) THEN Raising(root, made.heap)
    ELSE IF ~IsStr(root) THEN Raising(Err("TypeError"), made.heap)
    ELSE ObjPutId(ObjPutPath(ObjPutPath(made, Append(main, Key("save_path")),
                                        Str(SlotPath(root.s, iteration, j))),
                             Append(main, Key("load_path")),
                             Str(SlotPath(root.s, iteration, j))), id)

\* a call that appends to a list: the heap so far and the list
Appended(made, slots) ==
    IF IsErr(made) THEN [err |-> made.err, heap |-> made.heap, slots |-> slots]
    ELSE [heap |-> made.heap, slots |-> Append(slots, made.slot)]

\* first_generation from pass j on, so far being the heap and the population
RECURSIVE ObjFirstGeneration(_, _, _, _, _, _, _)
ObjFirstGeneration(so_far, main, paths, n, iteration, id, draws) ==
    IF IsErr(so_far) \/ Len(so_far.slots) >= n THEN so_far
    ELSE ObjFirstGeneration(
             Appended(ObjIndividual(ObjInitialize(so_far.heap, paths,
                                                  draws[Len(so_far.slots) + 1]),
                                    main,
                                    DictGetOr(so_far.heap[1], Key("save_path"),
                                              Err("KeyError")),
                                    Len(so_far.slots), iteration,
                                    id + Len(so_far.slots)),
                      so_far.slots),
             main, paths, n, iteration, id, draws)

\* selection_of_best_with_weights: selected.append(deepcopy(population[i]))
\* for the individuals i in kept, in order
RECURSIVE ObjSelection(_, _, _, _)
ObjSelection(so_far, population, kept, j) ==
    IF j > Len(population) THEN so_far
    ELSE ObjSelection(IF j \in kept
                      THEN Appended(deepcopy(so_far.heap, population[j]), so_far.slots)
                      ELSE so_far,
                      population, kept, j + 1)

\* crossover, one pass of the loop over j on both offsprings: each takes a
\* copy of the value of the other parent
ObjExchanged(got, child, path) ==
    IF IsErr(got) THEN got ELSE HeapInsert(got.heap, child, path, got.slot)

ObjExchangeSecond(made, other, first, path) ==
    IF IsErr(made) THEN made
    ELSE Appended(ObjExchanged(HeapGet(made.heap, first, path), other, path),
                  <<made.slot>>)

\* the heap and <<curr_offsprings[0], curr_offsprings[1]>> after the pass
ObjExchangeAt(so_far, first, second, path) ==
    ObjExchangeSecond(ObjExchanged(HeapGet(so_far.heap, second, path),
                                   so_far.slots[1], path),
                      so_far.slots[2], first, path)

RECURSIVE ObjExchange(_, _, _, _, _, _)
ObjExchange(so_far, first, second, paths, perm, j) ==
    IF j >= Len(paths) \/ IsErr(so_far) THEN so_far
    ELSE IF PyIndex(Len(paths), j) = 0 THEN Raising(Err("IndexError"), so_far.heap)
    ELSE ObjExchange(ObjExchangeAt(so_far, first, second,
                                   paths[perm[PyIndex(Len(paths), j)]]),
                     first, second, paths, perm, j + 1)

\* curr_offsprings = [deepcopy(parents[0]), deepcopy(parents[1])]
ObjBothCopied(one, second) ==
    [heap  |-> deepcopy(one.heap, second).heap,
     slots |-> <<one.slot, deepcopy(one.heap, second).slot>>]

\* offsprings.append(deepcopy(curr_offsprings[0]))
ObjCrossed(so_far) ==
    IF IsErr(so_far) THEN so_far ELSE deepcopy(so_far.heap, so_far.slots[1])

\* one pass of the loop of crossover: the heap and the offspring appended
ObjPass(heap, first, second, fires, power, paths, perm) ==
    IF ~fires THEN deepcopy(heap, first)
    ELSE ObjCrossed(ObjExchange(ObjBothCopied(deepcopy(heap, first), second),
                                first, second, paths, perm,
                                Len(paths) - CrossoverPart(power, Len(paths))))

\* the pass for the parents at one and two (0: np.where found nothing)
ObjPassOf(heap, population, one, two, fires, power, paths, perm) ==
    IF one = 0 \/ two = 0 THEN Raising(Err("IndexError"), heap)
    ELSE ObjPass(heap, population[one], population[two], fires, power, paths, perm)

\* crossover for the passes drawn: parents, gate and permutation of each
RECURSIVE ObjCrossover(_, _, _, _, _)
ObjCrossover(so_far, population, drawn, power, paths) ==
    IF IsErr(so_far) \/ Len(so_far.slots) >= Len(drawn) THEN so_far
    ELSE ObjCrossover(
             Appended(ObjPassOf(so_far.heap, population,
                                drawn[Len(so_far.slots) + 1].parents[1],
                                drawn[Len(so_far.slots) + 1].parents[2],
                                drawn[Len(so_far.slots) + 1].fired, power, paths,
                                drawn[Len(so_far.slots) + 1].perm),
                      so_far.slots),
             population, drawn, power, paths)

(***************************************************************************)
(* The calls on objects, as the caller makes them.  The caller keeps what  *)
(* a call returns in held and passes what it holds, or self.basic_config,  *)
(* to the next call; an object nothing refers to any more is gone.         *)
(***************************************************************************)
\* at most MaxHeld objects are held, and at most MaxObjects are there
MaxHeld == 2

MaxObjects == 10

\* what the caller holds once a call returned slots, in the heap left; got
\* tells the objects _get_value_from_config returned from the others
HeldAfter(live, got) ==
    [j \in 1..(Len(live.roots) - 1) |->
        IF j <= Len(held) THEN [held[j] EXCEPT !.slot = live.roots[j + 1]]
        ELSE [slot |-> live.roots[j + 1], got |-> got,
              tree |-> Deref(live.heap, live.roots[j + 1])]]

SlotsHeld == [j \in 1..Len(held) |-> held[j].slot]

\* the end of a call: the exception or the returned objects, the objects left
ObjReturn(res, returned, got) ==
    /\ \E live \in {Live(res.heap, <<BasicObject>> \o SlotsHeld \o returned)} :
          /\ Len(live.heap) <= MaxObjects
          /\ Len(live.roots) - 1 <= MaxHeld
          /\ memory' = live.heap
          /\ held' = HeldAfter(live, got)
    /\ raised' = IF IsErr(res) THEN res.err ELSE "none"

\* the config a call is given: self.basic_config for 0, else a held object
ConfigAt(c) == IF c = 0 THEN BasicObject ELSE held[c].slot

\* the objects among slots
RefsAmong(slots) == SelectSeq(slots, IsRef)

\* the value a call is given: an immutable value, or the held object [at |-> j]
ValueAt(v) == IF "at" \in DOMAIN v THEN held[v.at].slot ELSE v

\* the caller passes as value one of values, or an object it got from
\* _get_value_from_config
ObjSetCall(paths, values) ==
    /\ constructed
    /\ Len(held) < MaxHeld
    /\ \E c \in 0..Len(held), path \in paths :
       \E v \in values \cup {[at |-> j] : j \in {q \in 1..Len(held) : held[q].got}} :
       \E res \in {HeapInsert(memory, ConfigAt(c), path, ValueAt(v))} :
          /\ call' = "_insert_value_or_dict_into_config"
          /\ args' = [config |-> c, path |-> path, value |-> v]
          /\ ret' = IF IsErr(res) THEN None ELSE Deref(res.heap, res.slot)
          /\ ObjReturn(res, IF IsErr(res) THEN <<>> ELSE <<res.slot>>, FALSE)
    /\ UNCHANGED <<engine, n_saved_best_pretrained, evolution_model_id, generation, issued>>

ObjGetCall(paths) ==
    /\ constructed
    /\ Len(held) < MaxHeld
    /\ \E c \in 0..Len(held), path \in paths :
       \E res \in {HeapGet(memory, ConfigAt(c), path)} :
          /\ call' = "_get_value_from_config"
          /\ args' = [config |-> c, path |-> path]
          /\ ret' = IF IsErr(res) THEN None ELSE Deref(res.heap, res.slot)
          /\ ObjReturn(res, IF IsErr(res) THEN <<>> ELSE RefsAmong(<<res.slot>>), TRUE)
    /\ UNCHANGED <<engine, n_saved_best_pretrained, evolution_model_id, generation, issued>>

ObjFirstGenerationCall(iterations, max_id) ==
    /\ constructed
    /\ evolution_model_id + population_size <= max_id
    /\ Len(held) + population_size <= MaxHeld
    /\ \E iteration \in iterations :
       \E draws \in [1..population_size ->
                        DrawSeqs(basic_config, paths_to_evolving_params, 1)] :
       \E res \in {ObjFirstGeneration([heap |-> memory, slots |-> <<>>],
                                      main_model_path, paths_to_evolving_params,
                                      population_size, iteration, evolution_model_id,
                                      draws)} :
          /\ call' = "first_generation"
          /\ args' = [iteration |-> iteration]
          /\ evolution_model_id' = evolution_model_id + Len(res.slots)
          /\ ret' = IF IsErr(res) THEN None
                    ELSE [j \in 1..Len(res.slots) |-> Deref(res.heap, res.slots[j])]
          /\ issued' = IF IsErr(res) THEN issued
                       ELSE issued \o [j \in 1..Len(res.slots) |->
                                          evolution_model_id + j - 1]
          /\ ObjReturn(res, IF IsErr(res) THEN <<>> ELSE res.slots, FALSE)
    /\ UNCHANGED <<engine, n_saved_best_pretrained, generation>>

\* the populations the caller can pass: population_size held objects
HeldPopulations == [1..population_size -> 1..Len(held)]

SlotsAt(population) == [j \in DOMAIN population |-> held[population[j]].slot]

ObjSelectionCall(score_values) ==
    /\ constructed
    /\ \E population \in HeldPopulations :
       \E can_keep \in {RangesDeciding(TRUE, population_size)} :
       \E can_drop \in {RangesDeciding(FALSE, population_size)} :
       \E scores \in [1..population_size -> score_values] :
       \E kept \in {k \in KeptSets(scores, can_keep, can_drop) :
                       Len(held) + Cardinality(k) <= MaxHeld} :
       \E res \in {ObjSelection([heap |-> memory, slots |-> <<>>],
                                SlotsAt(population), kept, 1)} :
          /\ call' = "selection_of_best_with_weights"
          /\ args' = [population |-> population]
          /\ ret' = [j \in 1..Len(res.slots) |-> Deref(res.heap, res.slots[j])]
          /\ n_saved_best_pretrained' = Len(res.slots)
          /\ ObjReturn(res, res.slots, FALSE)
    /\ UNCHANGED <<engine, evolution_model_id, generation, issued>>

\* what one pass of the loop of crossover can draw: the parents, the gate and
\* the permutation
ObjPasses(intervals, p, paths) ==
    [parents : {ParentFor(intervals, r) : r \in Draws} \X
               {ParentFor(intervals, r) : r \in Draws},
     fired : {decision(p, rg) : rg \in Draws},
     perm : Permutations(1..Len(paths))]

ObjCrossoverCall(score_values) ==
    /\ constructed
    /\ Len(held) + population_size - n_saved_best_pretrained <= MaxHeld
    /\ \E population \in HeldPopulations :
       \E scores \in {s \in [1..population_size -> score_values] : ValidScores(s)} :
       \E drawn \in [1..(population_size - n_saved_best_pretrained) ->
                        ObjPasses(crossover_intervals(scores), p_crossover,
                                  paths_to_evolving_params)] :
       \E res \in {ObjCrossover([heap |-> memory, slots |-> <<>>], SlotsAt(population),
                                drawn, crossover_power, paths_to_evolving_params)} :
          /\ call' = "crossover"
          /\ args' = [population |-> population]
          /\ ret' = IF IsErr(res) THEN None
                    ELSE [j \in 1..Len(res.slots) |-> Deref(res.heap, res.slots[j])]
          /\ ObjReturn(res, IF IsErr(res) THEN <<>> ELSE res.slots, FALSE)
    /\ UNCHANGED <<engine, n_saved_best_pretrained, evolution_model_id, generation, issued>>

\* del: the caller lets go of an object it holds
ObjDrop ==
    /\ \E j \in 1..Len(held) :
       \E live \in {Live(memory, <<BasicObject>> \o
                                 [q \in 1..(Len(held) - 1) |->
                                     held[IF q < j THEN q ELSE q + 1].slot])} :
          /\ memory' = live.heap
          /\ held' = [q \in 1..(Len(held) - 1) |->
                         [held[IF q < j THEN q ELSE q + 1] EXCEPT
                             !.slot = live.roots[q + 1]]]
    /\ call' = "del"
    /\ args' = None
    /\ raised' = "none"
    /\ ret' = None
    /\ UNCHANGED <<engine, n_saved_best_pretrained, evolution_model_id, generation, issued>>

\* the paths and the values of the set and get calls
ObjPaths == {<<Key("model")>>, <<Key("extra"), Key("bias")>>}

ObjValues == {None}

\* one main model, two Boolean parameters
ConfigTwoBools ==
    Dict(<<<<Key("save_path"), Str(RootPath)>>,
           <<Key("model"), MainModel(<<<<Key("bias"), BoolSpec>>,
                                       <<Key("norm"), BoolSpec>>>>)>>>>)

InitObj == Construct(ConfigTwoBools, 2, "main")

ObjSet == ObjSetCall(ObjPaths, ObjValues)

ObjGet == ObjGetCall(ObjPaths)

ObjFirst == ObjFirstGenerationCall({0}, population_size)

ObjSelect == ObjSelectionCall({1})

ObjCross == ObjCrossoverCall({1})

NextObj == ObjSet \/ ObjGet \/ ObjFirst \/ ObjSelect \/ ObjCross \/ ObjDrop

SpecObjects == InitObj /\ [][NextObj]_vars

(***************************************************************************)
(* next_generation with its optional arguments omitted, 0 or 1/4.          *)
(***************************************************************************)
NextArgs == {None, NumV(NumZero), NumV(TwoPow(-2))}

InitNext == Construct(ConfigInPipe, 2, "main")

FirstGenerationNext == FirstGenerationCall({0}, population_size)

NextGenerationNext == NextGeneration({1}, NextArgs, NextArgs)

NextNext == FirstGenerationNext \/ NextGenerationNext

SpecNext == InitNext /\ [][NextNext]_vars

(***************************************************************************)
(* The properties.                                                         *)
(***************************************************************************)
\* the elements of a sequence
Range(seq) == {seq[j] : j \in 1..Len(seq)}

NoRepeat(seq) == \A j, q \in 1..Len(seq) : j # q => seq[j] # seq[q]

\* the keys of a dict
KeysOf(v) == {v.d[j][1] : j \in 1..Len(v.d)}

\* C1: selection_of_best_with_weights keeps a maximum-score individual (the
\* one ranked 1), drops a minimum-score individual (the one ranked
\* population_size), and so saves at least 1 and at most population_size - 1
C1_KeepsBestDropsWorst ==
    (call = "selection_of_best_with_weights") =>
        /\ \E j \in 1..population_size :
              /\ \A q \in 1..population_size : args.scores[q] <= args.scores[j]
              /\ generation[j] \in Range(ret)
        /\ \E j \in 1..population_size :
              /\ \A q \in 1..population_size : args.scores[j] <= args.scores[q]
              /\ generation[j] \notin Range(ret)
        /\ n_saved_best_pretrained >= 1
        /\ n_saved_best_pretrained <= population_size - 1

\* C2: the identifiers given to new individuals are 0, 1, 2, ... in the
\* order of their making, the counter is the next one, and the identifiers
\* of a returned generation are pairwise distinct and below the counter
C2_IdsNeverReused ==
    /\ issued = [j \in 1..Len(issued) |-> j - 1]
    /\ evolution_model_id = Len(issued)
    /\ (call \in {"first_generation", "next_generation"} /\ raised = "none") =>
          /\ NoRepeat(IdsOf(ret))
          /\ \A j \in 1..Len(ret) : IdOf(ret[j]) < evolution_model_id

\* a second generation 0 is returned after a call of next_generation
C2_Witness ==
    /\ call = "first_generation"
    /\ raised = "none"
    /\ n_saved_best_pretrained > 0
    /\ evolution_model_id = 2 * population_size

\* C3: next_generation returns population_size individuals, the
\* n_saved_best_pretrained elites (individuals made before the call) first,
\* the offspring (made by the call) after them
C3_NextGenerationReturns ==
    (call = "next_generation") =>
        /\ raised = "none"
        /\ Len(ret) = population_size
        /\ \A j \in 1..Len(ret) :
              (j <= n_saved_best_pretrained)
                  <=> (IdOf(ret[j]) < evolution_model_id
                                      - (population_size - n_saved_best_pretrained))

\* C4: crossover on valid scores returns population_size -
\* n_saved_best_pretrained offspring
C4_CrossoverCount ==
    (call = "crossover" /\ args.valid) =>
        /\ raised = "none"
        /\ Len(ret) = population_size - n_saved_best_pretrained

\* floor(crossover_power * n), in exact arithmetic
ExactPart(power, n) == NumTrunc(NumMul(power, FromInt(n)))

\* the value of the evolving parameter q of an individual
ParamAt(individual, q) == get_value_from_config(individual, paths_to_evolving_params[q])

\* an individual with every evolving parameter from q on blanked
RECURSIVE Blank(_, _)
Blank(individual, q) ==
    IF q > n_evolving_params THEN individual
    ELSE Blank(insert_value_or_dict_into_config(individual, paths_to_evolving_params[q],
                                                None), q + 1)

\* the offspring j of the last crossover is as C5 says
OffspringAsClaimed(j) ==
    LET d     == args.drawn[j]
        one   == generation[d.parents[1]]
        two   == generation[d.parents[2]]
        n     == n_evolving_params
        part  == ExactPart(args.crossover_power, n)
        taken == IF d.fired THEN {d.perm[q] : q \in (n - part + 1)..n} ELSE {}
    IN  /\ args.p_crossover = NumZero => ~d.fired
        /\ ~d.fired => ret[j] = one
        /\ d.fired => Cardinality(taken) = part
        /\ Blank(ret[j], 1) = Blank(one, 1)
        /\ \A q \in 1..n :
              ParamAt(ret[j], q) = IF q \in taken THEN ParamAt(two, q) ELSE ParamAt(one, q)

\* C5: an offspring of crossover is a copy of its first parent when the gate
\* does not fire (never for p_crossover = 0); when it fires it is the first
\* parent but for the floor(crossover_power * n_evolving_params) parameters
\* at the last places of the permutation, which have the second parent's value
C5_OffspringBuilt ==
    (call = "crossover" /\ raised = "none") =>
        /\ Len(args.drawn) = Len(ret)
        /\ \A j \in 1..Len(ret) : OffspringAsClaimed(j)

\* an offspring with one parameter of each parent
C5_Witness ==
    /\ call = "crossover"
    /\ raised = "none"
    /\ args.crossover_power = DefaultP
    /\ \E j \in 1..Len(ret) :
          /\ args.drawn[j].fired
          /\ ret[j] # generation[args.drawn[j].parents[1]]
          /\ ret[j] # generation[args.drawn[j].parents[2]]

\* the spec of the last mutation_of_param is a range
RangeMutated ==
    /\ call = "mutation_of_param"
    /\ IsDict(args.spec)
    /\ HasKey(args.spec, Key("evolve_range"))

\* C6: when the gate fires for a range [low, high], mutation_of_param
\* returns a value with low <= value <= high, which for a discrete range is
\* an integer or one of the two bounds; when the gate does not fire it
\* returns the value it got
C6_MutationInBounds ==
    RangeMutated =>
        LET range == DictGet(args.spec, Key("evolve_range")).l
        IN  /\ raised = "none"
            /\ ~args.fired => ret = args.param_value
            /\ args.fired =>
                  /\ NumLeq(range[1].n, ret.n)
                  /\ NumLeq(ret.n, range[2].n)
                  /\ GetTruthy(args.spec, "discrete") =>
                        \/ NumIsInt(ret.n)
                        \/ ret.n \in {range[1].n, range[2].n}

\* a step above the range was brought back to its upper bound
C6_Witness ==
    /\ RangeMutated
    /\ args.fired
    /\ args.mutation_power = FromInt(1)
    /\ args.param_value.n = DictGet(args.spec, Key("evolve_range")).l[2].n
    /\ ret = args.param_value

\* C7: when the gate fires for an evolve_choice spec, mutation_of_param
\* returns one of the candidate values of the spec, without an exception
C7_ChoiceResampled ==
    (call = "mutation_of_param" /\ args.fired /\ IsDict(args.spec)
        /\ GetTruthy(args.spec, "evolve_choice")) =>
        /\ raised = "none"
        /\ ret \in Range(DictGet(args.spec, Key("values")).l)

\* C8: crossover on scores with a negative score or a zero sum raises, and
\* returns no offspring
C8_InvalidScoresRaise ==
    (call = "crossover" /\ ~args.valid) =>
        /\ raised # "none"
        /\ ret = None

\* C9: next_generation returns, the save_path of the main model of the
\* individual at index i ends with population_<iteration>/model_<i>, and the
\* individual has no key the basic config has not, but for its identifier
C9_SavePathRewritten ==
    (call = "next_generation") =>
        /\ raised = "none"
        /\ \A j \in 1..Len(ret) :
              LET saved == get_value_from_config(ret[j],
                               Append(main_model_path, Key("save_path")))
              IN  /\ IsStr(saved)
                  /\ EndsWith(saved.s, <<"/">> \o PopulationPrefix \o IntStr(args.iteration)
                                       \o <<"/">> \o ModelPrefix \o IntStr(j - 1))
                  /\ KeysOf(ret[j]) \subseteq
                        KeysOf(basic_config) \cup {Key("evolution_model_id")}

\* C10: an engine is constructed only for a basic config where exactly one
\* sub-tree carries the marker of the main model
C10_OneMainModel ==
    constructed => Len(find_model_path(basic_config, Key("main"), <<>>)) = 1


\* v is a Python number that is an integer in [low, high]
IntegerWithin(v, range) ==
    /\ IsNum(v)
    /\ NumIsInt(v.n)
    /\ NumLeq(range[1].n, v.n)
    /\ NumLeq(v.n, range[2].n)

\* the evolving parameters of the basic config whose spec is a discrete range
DiscretePaths ==
    {q \in 1..n_evolving_params :
        /\ IsDict(ParamAt(basic_config, q))
        /\ HasKey(ParamAt(basic_config, q), Key("evolve_range"))
        /\ GetTruthy(ParamAt(basic_config, q), "discrete")}

\* C11: a value sampled for a discrete range spec with low <= high is an
\* integer v with low <= v <= high, and so is every such parameter of every
\* individual of a first generation
C11_DiscreteSampleInRange ==
    /\ (call = "sample_params" /\ GetTruthy(args.spec, "discrete")) =>
          /\ raised = "none"
          /\ IntegerWithin(ret, DictGet(args.spec, Key("evolve_range")).l)
    /\ (call = "first_generation" /\ raised = "none") =>
          \A j \in 1..Len(ret) : \A q \in DiscretePaths :
              IntegerWithin(ParamAt(ret[j], q),
                            DictGet(ParamAt(basic_config, q), Key("evolve_range")).l)



\* the value of the config a call on objects was given
InTree(c) == IF c = 0 THEN basic_config ELSE held[c].tree

\* the objects the object at c (0: self.basic_config) is made of
ObjectsOf(c) == ReachOf(memory, <<ConfigAt(c)>>)

\* the held object at j shares no object with self.basic_config or with
\* another held object
Apart(j) == \A q \in (0..Len(held)) \ {j} : ObjectsOf(j) \cap ObjectsOf(q) = {}

\* self.basic_config and every held object have the value they had when
\* they were made
Unchanged ==
    /\ Deref(memory, BasicObject) = basic_config
    /\ \A j \in 1..Len(held) : Deref(memory, held[j].slot) = held[j].tree

\* the returned config is the given one with the value at the path and
\* differs from it at the path only, and the objects it shares with the
\* given one are objects of the value
SetIndependent(c, path, value, new) ==
    /\ held[new].tree =
           insert_value_or_dict_into_config(InTree(c), path, Deref(memory, value))
    /\ insert_value_or_dict_into_config(held[new].tree, path, None) =
           insert_value_or_dict_into_config(InTree(c), path, None)
    /\ (ObjectsOf(new) \cap ObjectsOf(c)) \subseteq ReachOf(memory, <<value>>)

\* C12: set and get leave the config they are given as it was: set returns
\* an independent copy that differs from it only at the written path, get
\* returns (a part of) a copy, and after any sequence of first_generation,
\* selection, crossover, set and get calls self.basic_config and every
\* object returned before are unchanged, the objects an engine call returns
\* sharing nothing with them or with one another
C12_InputsUntouched ==
    /\ Unchanged
    /\ (call = "_insert_value_or_dict_into_config" /\ raised = "none") =>
           SetIndependent(args.config, args.path, ValueAt(args.value), Len(held))
    /\ (call = "_get_value_from_config" /\ raised = "none") =>
           /\ ret = get_value_from_config(InTree(args.config), args.path)
           /\ (IsDict(ret) \/ IsList(ret)) => Apart(Len(held))
    /\ (call \in {"first_generation", "selection_of_best_with_weights", "crossover"}
           /\ raised = "none") =>
           \A j \in (Len(held) - Len(ret) + 1)..Len(held) : Apart(j)

\* a set call on an individual returned before, at a path whose
\* dicts it had to make
C12_Witness ==
    /\ call = "_insert_value_or_dict_into_config"
    /\ raised = "none"
    /\ args.config = 1
    /\ HasKey(held[1].tree, Key("evolution_model_id"))
    /\ ~HasKey(held[1].tree, Key("extra"))
    /\ HasKey(held[2].tree, Key("extra"))



\* C13: an optional argument of next_generation that is given, 0 included,
\* is the value the replacement uses; the value of the constructor is used
\* only for an argument that is omitted
C13_GivenArgumentsUsed ==
    call = "next_generation" =>
        \A name \in DOMAIN args.given :
            IF args.given[name] = None
            THEN args.used[name] = Effective(Given(None, None, None, None))[name]
            ELSE args.used[name] = args.given[name].n

=============================================================================
